---- MODULE Spec2Model ----
(***************************************************************************)
(* Rubik's cube simulator: the move queue and scheduler (rotation.rs), the *)
(* rotation applier and snap (rotation.rs), the solved detector (cube.rs), *)
(* the play-mode driver and the Update schedule (main.rs), and the button  *)
(* handlers (ui.rs).                                                       *)
(*                                                                         *)
(* Units.  Time is counted in eighths of a second and angles in eighths of  *)
(* pi, so that every quantity of the code is an integer: the cooldown      *)
(* timer's 0.5 s is 4 time units, a quarter turn (FRAC_PI_2) is 4 angle    *)
(* units, and a frame of dt time units turns a face by                     *)
(* ONE_ROTATION_RADIANS * (dt / 8) * ROTATION_SPEED = dt angle units.      *)
(* Arithmetic on angles and positions is exact (the rounding of f32 is not *)
(* modelled).                                                              *)
(***************************************************************************)
EXTENDS Integers, Sequences, FiniteSets, TLC

\* rotation.rs:11  FRAC_PI_2, in units of pi/8
ONE_ROTATION_RADIANS == 4
\* rotation.rs:12
ROTATION_SPEED == 2
\* rotation.rs:69  Timer::from_seconds(0.5, Repeating), in units of 1/8 s
TimerDuration == 4

\* rotation.rs:121  the largest delta Res<Time> reports for a frame: the
\* engine's virtual clock caps it at 250 ms, in units of 1/8 s
MaxDt == 2
\* Largest number of moves enqueued in one run.
MaxMoves == 2

Abs(n) == IF n < 0 THEN -n ELSE n
\* f32::signum: 1.0 for +0.0 and positive numbers, -1.0 for negative ones
Signum(n) == IF n < 0 THEN -1 ELSE 1
Min(a, b) == IF a <= b THEN a ELSE b

(***************************************************************************)
(* Vectors of the lattice: triples of integers.                            *)
(***************************************************************************)
X == <<1, 0, 0>>
Y == <<0, 1, 0>>
Z == <<0, 0, 1>>
ZERO == <<0, 0, 0>>
Neg(v) == <<-v[1], -v[2], -v[3]>>
Add(u, v) == <<u[1] + v[1], u[2] + v[2], u[3] + v[3]>>
Scale(k, v) == <<k * v[1], k * v[2], k * v[3]>>
Dot(u, v) == u[1] * v[1] + u[2] * v[2] + u[3] * v[3]
Cross(u, v) == <<u[2] * v[3] - u[3] * v[2],
                 u[3] * v[1] - u[1] * v[3],
                 u[1] * v[2] - u[2] * v[1]>>

\* v turned a quarter turn about the unit axis n through the origin,
\* counter-clockwise seen from the tip of n when s = 1 (Quat::from_axis_angle)
QuarterTurn(n, s, v) == Add(Scale(Dot(n, v), n), Scale(s, Cross(n, v)))

(***************************************************************************)
(* cube.rs: Face, Direction, Rotation                                      *)
(***************************************************************************)
Faces == {"Top", "Bottom", "Left", "Right", "Front", "Back",
          "HorizontalCentre", "VerticalCentre"}

is_center(face) == face \in {"HorizontalCentre", "VerticalCentre"}

flat_faces == <<"Top", "Bottom", "Left", "Right", "Front", "Back">>

normal(face) ==
  CASE face = "Top" -> Y
    [] face = "Bottom" -> Neg(Y)
    [] face = "Left" -> Neg(X)
    [] face = "Right" -> X
    [] face = "Front" -> Z
    [] face = "Back" -> Neg(Z)
    [] face = "HorizontalCentre" -> Y
    [] face = "VerticalCentre" -> X

Directions == {"Forward", "Backward"}

\* variant: both directions turn the same way
signum_forward(direction) == 1

signum(direction) == IF direction = "Forward" THEN 1 ELSE -1

Rotation(face, direction) == [face |-> face, direction |-> direction]

AllRotations == {Rotation(f, d) : f \in Faces, d \in Directions}

\* Option<Rotation>::None
NoRotation == [face |-> "None", direction |-> "None"]

(***************************************************************************)
(* cubie.rs: the 26 pieces and their stickers.  A piece is named by the    *)
(* lattice cell it is spawned at.                                          *)
(***************************************************************************)
Coordinates == {-1, 0, 1}

\* i8, and its arithmetic as a build without overflow checks computes it
I8_MIN == -128
I8_MAX == 127
I8 == I8_MIN .. I8_MAX
wrapping(n) == ((n - I8_MIN) % (I8_MAX - I8_MIN + 1)) + I8_MIN
wrapping_abs(n) == wrapping(Abs(n))
wrapping_add(a, b) == wrapping(a + b)

\* cubie.rs:127-128: one of x.abs(), y.abs(), z.abs() or of the two additions
\* of abs_sum leaves i8 (a build with overflow checks panics there)
overflows(x, y, z) ==
  \/ I8_MIN \in {x, y, z}
  \/ Abs(x) + Abs(y) > I8_MAX
  \/ Abs(x) + Abs(y) + Abs(z) > I8_MAX

\* variant: a corner is told by its x and y coordinates only
from_coordinates_two_axes(x, y, z) ==
  LET abs_sum == wrapping_add(wrapping_add(wrapping_abs(x), wrapping_abs(y)),
                              wrapping_abs(z))
  IN  IF x = 0 /\ y = 0 /\ z = 0 THEN "None"
      ELSE IF abs_sum = 1 THEN "Centre"
      ELSE IF wrapping_abs(x) = wrapping_abs(y) THEN "Corner"
      ELSE "Edge"

\* cubie.rs: Kind::from_coordinates, where no overflow check stops it
from_coordinates(x, y, z) ==
  LET abs_sum == wrapping_add(wrapping_add(wrapping_abs(x), wrapping_abs(y)),
                              wrapping_abs(z))
  IN  IF x = 0 /\ y = 0 /\ z = 0 THEN "None"
      ELSE IF abs_sum = 1 THEN "Centre"
      ELSE IF wrapping_abs(x) = wrapping_abs(y)
                /\ wrapping_abs(x) = wrapping_abs(z) THEN "Corner"
      ELSE "Edge"

Cubies == {c \in Coordinates \X Coordinates \X Coordinates :
             from_coordinates(c[1], c[2], c[3]) # "None"}

\* cubie::Face::variants with their normals: the six stickers of a piece
CubieFaces == {"Top", "Bottom", "Left", "Right", "Front", "Back"}

start_color(face) ==
  CASE face = "Top" -> "White"
    [] face = "Bottom" -> "Yellow"
    [] face = "Left" -> "Green"
    [] face = "Right" -> "Blue"
    [] face = "Front" -> "Red"
    [] face = "Back" -> "Orange"

(***************************************************************************)
(* A Transform.  `cell' is the translation the piece had when it last sat  *)
(* on the lattice and `rotation' its orientation then, given as the images *)
(* of the X, Y and Z axes; `turn' is the signed angle it has been turned   *)
(* since about `axis' (ZERO when turn = 0).  The translation proper is     *)
(* `cell' turned by `turn' about `axis'.                                   *)
(***************************************************************************)
IDENTITY == <<X, Y, Z>>

from_xyz(x, y, z) ==
  [cell |-> <<x, y, z>>, rotation |-> IDENTITY, turn |-> 0, axis |-> ZERO]

\* the orientation r turned a quarter turn about n
QuarterTurnRotation(n, s, r) ==
  <<QuarterTurn(n, s, r[1]), QuarterTurn(n, s, r[2]), QuarterTurn(n, s, r[3])>>

\* cosine and sine of k * pi/8 in thousandths, 0 <= k <= 4
CosTable == <<1000, 924, 707, 383, 0>>
SinTable == <<0, 383, 707, 924, 1000>>
Cos(k) == CosTable[Abs(k) + 1]
Sin(k) == Signum(k) * SinTable[Abs(k) + 1]

\* the vector v turned by k * pi/8 about the unit axis n (Rodrigues' formula);
\* the result is in thousandths of the unit of v
Turn(n, k, v) ==
  IF k = 0 THEN Scale(1000, v)
  ELSE LET along == Scale(Dot(n, v), n)
           across == Add(v, Neg(along))
       IN  Add(Add(Scale(1000, along), Scale(Cos(k), across)),
               Scale(Sin(k), Cross(n, v)))

\* Transform::translation, in thousandths of a lattice unit
Translation(t) == Turn(t.axis, t.turn, t.cell)

(***************************************************************************)
(* Transform::rotate_around(point, Quat::from_axis_angle(n, step)): the    *)
(* translation is turned by step about the axis n through point and the    *)
(* orientation by the same rotation.  Every call site passes a point on    *)
(* the axis (the face normal itself), so the axis passes through the       *)
(* origin.  A completed quarter turn moves the piece to the next cell.     *)
(***************************************************************************)
rotate_around(t, point, n, step) ==
  LET turned == t.turn + step
      s == Signum(turned)
  IN  IF turned = 0 THEN [t EXCEPT !.turn = 0, !.axis = ZERO]
      ELSE IF Abs(turned) < ONE_ROTATION_RADIANS
        THEN [t EXCEPT !.turn = turned, !.axis = n]
      ELSE [cell |-> Add(point, QuarterTurn(n, s, Add(t.cell, Neg(point)))),
            rotation |-> QuarterTurnRotation(n, s, t.rotation),
            turn |-> turned - s * ONE_ROTATION_RADIANS,
            axis |-> IF turned = s * ONE_ROTATION_RADIANS THEN ZERO ELSE n]

\* variant: the centre-slice test has no lower bound
should_rotate_cubie_unbounded_below(translation, axis, is_center_slice) ==
  IF is_center_slice
    THEN Dot(translation, axis) <= 500
    ELSE Dot(translation, axis) >= 1000

\* rotation.rs: should_rotate_cubie; translation and thresholds in thousandths
should_rotate_cubie(translation, axis, is_center_slice) ==
  IF is_center_slice
    THEN LET dot == Dot(translation, axis) IN dot <= 500 /\ dot >= 0
    ELSE Dot(translation, axis) >= 1000

\* variant: a coordinate away from 0 snaps to 1 whatever its sign
snapped_translation_unsigned(translation) ==
  LET snap(coordinate) == IF Abs(coordinate) < 500 THEN 0 ELSE 1
  IN  <<snap(translation[1]), snap(translation[2]), snap(translation[3])>>

\* rotation.rs: snapped_translation; the result is in lattice units
snapped_translation(translation) ==
  LET snap(coordinate) ==
        IF Abs(coordinate) < 500 THEN 0 ELSE Signum(coordinate)
  IN  <<snap(translation[1]), snap(translation[2]), snap(translation[3])>>

(***************************************************************************)
(* Quat::to_euler(XYZ) and Quat::from_euler(XYZ, x, y, z) on orientations, *)
(* with the three angles counted in quarter turns: from_euler composes     *)
(* the turns about X, Y and Z, and to_euler reads the three angles off the  *)
(* matrix of the orientation.                                              *)
(***************************************************************************)
QuarterTurns(n, k, r) ==
  IF k = 0 THEN r
  ELSE IF Abs(k) = 1 THEN QuarterTurnRotation(n, Signum(k), r)
  ELSE QuarterTurnRotation(n, 1, QuarterTurnRotation(n, 1, r))

from_euler(x, y, z) ==
  QuarterTurns(X, x, QuarterTurns(Y, y, QuarterTurns(Z, z, IDENTITY)))

EulerAngles == (-2 .. 2) \X (-1 .. 1) \X (-2 .. 2)

Orientations == {from_euler(e[1], e[2], e[3]) : e \in EulerAngles}

\* f32::atan2 of two coordinates of a unit lattice vector, in quarter turns;
\* a half turn reads 2 here, and -2 composes to the same orientation
atan2(y, x) ==
  IF y > 0 THEN 1
  ELSE IF y < 0 THEN -1
  ELSE IF x < 0 THEN 2 ELSE 0

\* variant: the orientations whose second angle is a quarter turn are read
\* with the formulas of all the others
to_euler_ungimballed(r) ==
  <<atan2(-r[3][2], r[3][3]), r[3][1], atan2(-r[2][1], r[1][1])>>

\* Quat::to_euler(EulerRot::XYZ).  r holds the columns of the matrix of the
\* orientation.  The second angle is read from the X coordinate of the
\* image of Z; where it is a quarter turn the first and third angles turn
\* about the same line, and the third is reported as 0.
to_euler(r) ==
  IF r[3][1] = 0
    THEN <<atan2(-r[3][2], r[3][3]), 0, atan2(-r[2][1], r[1][1])>>
    ELSE <<atan2(r[2][3], r[2][2]), r[3][1], 0>>

\* the orientation proper of a transform, to the nearest quarter turn
\* (f32::round rounds half-way cases away from zero)
NearestRotation(t) ==
  IF 2 * Abs(t.turn) >= ONE_ROTATION_RADIANS
    THEN QuarterTurnRotation(t.axis, Signum(t.turn), t.rotation)
    ELSE t.rotation

\* rotation.rs: snapped_rotation
snapped_rotation(t) ==
  LET e == to_euler(NearestRotation(t))
  IN  from_euler(e[1], e[2], e[3])

\* rotation.rs: snap_cubie_to_grid
snap_cubie_to_grid(t) ==
  [cell |-> snapped_translation(Translation(t)),
   rotation |-> snapped_rotation(t),
   turn |-> 0,
   axis |-> ZERO]

(***************************************************************************)
(* cubie.rs: spawn_cubies.  Every piece carries six stickers, one per      *)
(* cubie::Face, at normal * CUBIE_FACE_OFFSET from the piece's centre and  *)
(* coloured with the face's start colour.                                  *)
(***************************************************************************)
\* cubie.rs:6  0.49, in hundredths of a lattice unit
CUBIE_FACE_OFFSET == 49

spawn_cubies == [c \in Cubies |-> from_xyz(c[1], c[2], c[3])]

\* the image under the orientation r of the normal of a cubie::Face
\* (cubie.rs:69-78); r holds the images of X, Y and Z
RotatedNormal(r, face) ==
  CASE face = "Top" -> r[2]
    [] face = "Bottom" -> Neg(r[2])
    [] face = "Left" -> Neg(r[1])
    [] face = "Right" -> r[1]
    [] face = "Front" -> r[3]
    [] face = "Back" -> Neg(r[3])

\* GlobalTransform::translation of the sticker `face' of a piece whose
\* propagated transform is t, in units of 1/100000: the piece's transform
\* applied to the sticker's local translation, normal * CUBIE_FACE_OFFSET
StickerTranslation(t, face) ==
  Turn(t.axis, t.turn,
       Add(Scale(100, t.cell),
           Scale(CUBIE_FACE_OFFSET, RotatedNormal(t.rotation, face))))

(***************************************************************************)
(* cube.rs: the solved detector                                            *)
(***************************************************************************)
\* cube.rs:101: the stickers collected from the query, each with the
\* translation of its GlobalTransform and the colour of its material
collect_cubie_faces(transforms) ==
  {<<StickerTranslation(transforms[s[1]], s[2]), start_color(s[2])>> :
     s \in Cubies \X CubieFaces}

\* variant: the comparison with the first sample is inverted (== for !=)
are_all_colors_on_face_same_inverted(face, cubie_faces) ==
  LET face_normal == normal(face)
      sampled == {s \in cubie_faces :
                    Dot(face_normal, s[1]) = 1000 * (100 + CUBIE_FACE_OFFSET)}
  IN  \A s \in sampled : \A sample \in sampled :
        s = sample \/ s[2] # sample[2]

\* cube.rs: are_all_colors_on_face_same.  The stickers sampled are those
\* whose translation dotted with the normal equals 1 + CUBIE_FACE_OFFSET;
\* each is compared with the first one sampled.
are_all_colors_on_face_same(face, cubie_faces) ==
  LET face_normal == normal(face)
      sampled == {s \in cubie_faces :
                    Dot(face_normal, s[1]) = 1000 * (100 + CUBIE_FACE_OFFSET)}
  IN  \A s \in sampled : \A sample \in sampled : s[2] = sample[2]

\* variant: one face that passes makes the cube solved
cube_solved_any_face(transforms) ==
  LET cubie_faces == collect_cubie_faces(transforms)
  IN  \E i \in 1 .. Len(flat_faces) :
        are_all_colors_on_face_same(flat_faces[i], cubie_faces)

\* cube.rs:100-107: the loop over Face::flat_faces()
cube_solved(transforms) ==
  LET cubie_faces == collect_cubie_faces(transforms)
  IN  \A i \in 1 .. Len(flat_faces) :
        are_all_colors_on_face_same(flat_faces[i], cubie_faces)

(***************************************************************************)
(* rotation.rs: random moves                                               *)
(***************************************************************************)
\* variant: the catch-all arm yields Top
sample_face_top_twice(n) ==
  CASE n = 1 -> "Top"
    [] n = 2 -> "Bottom"
    [] n = 3 -> "Left"
    [] n = 4 -> "Right"
    [] n = 5 -> "Front"
    [] n = 6 -> "Back"
    [] n = 7 -> "HorizontalCentre"
    [] OTHER -> "Top"

\* cube.rs:72-86  Distribution<Face>, n drawn from 0..8
sample_face(n) ==
  CASE n = 1 -> "Top"
    [] n = 2 -> "Bottom"
    [] n = 3 -> "Left"
    [] n = 4 -> "Right"
    [] n = 5 -> "Front"
    [] n = 6 -> "Back"
    [] n = 7 -> "HorizontalCentre"
    [] OTHER -> "VerticalCentre"

\* rotation.rs:34-41  Distribution<Direction>, n drawn from 0..2
sample_direction(n) == IF n = 1 THEN "Forward" ELSE "Backward"

\* rotation.rs: Rotation::random
RandomRotations ==
  {Rotation(sample_face(f), sample_direction(d)) : f \in 0 .. 7, d \in 0 .. 1}

(***************************************************************************)
(* rotation.rs: RotationTimer, a repeating Timer.  Timer::tick adds the    *)
(* delta to the elapsed time; when the duration is reached the timer wraps *)
(* and `finished' is set until the next call of tick.                      *)
(***************************************************************************)
RotationTimer_new ==
  [elapsed |-> 0, finished |-> FALSE, times_finished_this_tick |-> 0]

\* variant: a timer that runs once: after it has finished a tick changes
\* nothing but the count of wraps of that tick
tick_once(timer, delta) ==
  LET elapsed == timer.elapsed + delta
  IN  IF timer.finished
        THEN [timer EXCEPT !.times_finished_this_tick = 0]
      ELSE IF elapsed >= TimerDuration
        THEN [elapsed |-> TimerDuration,
              finished |-> TRUE,
              times_finished_this_tick |-> 1]
      ELSE [elapsed |-> elapsed,
            finished |-> FALSE,
            times_finished_this_tick |-> 0]

tick(timer, delta) ==
  LET elapsed == timer.elapsed + delta
  IN  IF elapsed >= TimerDuration
        THEN [elapsed |-> elapsed % TimerDuration,
              finished |-> TRUE,
              times_finished_this_tick |-> elapsed \div TimerDuration]
        ELSE [elapsed |-> elapsed,
              finished |-> FALSE,
              times_finished_this_tick |-> 0]

\* variant: the timer reports a wrap on every tick
just_finished_always(timer) == TRUE

just_finished(timer) == timer.times_finished_this_tick > 0

(***************************************************************************)
(* rotation.rs: Rotations, the scheduler's state                           *)
(***************************************************************************)
Rotations_new(in_progress, queue) ==
  [current |-> in_progress,
   current_remaining |->
     IF in_progress # NoRotation
       THEN ONE_ROTATION_RADIANS * signum(in_progress.direction)
       ELSE 0,
   queue |-> queue]

progress_current_rotation(rs, progress) ==
  [rs EXCEPT !.current_remaining = @ - progress]

\* variant: the pending list always reads as empty
is_queue_empty_always(rs) == TRUE

is_queue_empty(rs) == rs.queue = <<>>

\* variant: the rotation is pushed at the front of the queue
enqueue_front(rs, rotation) == [rs EXCEPT !.queue = <<rotation>> \o @]

enqueue(rs, rotation) == [rs EXCEPT !.queue = Append(@, rotation)]

\* variant: the remaining angle is loaded without the direction's sign
load_next_rotation_unsigned(rs) ==
  IF rs.queue = <<>> THEN [rs EXCEPT !.current = NoRotation]
  ELSE [current |-> Head(rs.queue),
        current_remaining |-> ONE_ROTATION_RADIANS,
        queue |-> Tail(rs.queue)]

\* VecDeque::pop_front leaves None in `current' when the queue is empty
load_next_rotation(rs) ==
  IF rs.queue = <<>> THEN [rs EXCEPT !.current = NoRotation]
  ELSE [current |-> Head(rs.queue),
        current_remaining |->
          ONE_ROTATION_RADIANS * signum(Head(rs.queue).direction),
        queue |-> Tail(rs.queue)]

\* variant: the step is clamped to a quarter turn, not to what remains
rotation_step_quarter_clamp(rs, delta) ==
  Min((ONE_ROTATION_RADIANS * delta * ROTATION_SPEED) \div (2 * TimerDuration),
      ONE_ROTATION_RADIANS)
    * Signum(rs.current_remaining)

\* variant: the step is not clamped to the remaining angle
rotation_step_unclamped(rs, delta) ==
  ((ONE_ROTATION_RADIANS * delta * ROTATION_SPEED) \div (2 * TimerDuration))
    * Signum(rs.current_remaining)

\* rotation.rs:130-132: the angle turned in a frame of delta time units
\* (delta / 8 seconds; 8 = 2 * TimerDuration)
rotation_step(rs, delta) ==
  Min((ONE_ROTATION_RADIANS * delta * ROTATION_SPEED) \div (2 * TimerDuration),
      Abs(rs.current_remaining))
    * Signum(rs.current_remaining)

\* variant: every piece is turned, whatever should_rotate_cubie says
rotate_eligible_cubies_all(transforms, rs, step) ==
  LET face_normal == normal(rs.current.face)
  IN  [c \in Cubies |->
         LET turned == rotate_around(transforms[c], face_normal,
                                     face_normal, step)
         IN  IF rs.current_remaining = step
               THEN snap_cubie_to_grid(turned)
               ELSE turned]

\* rotation.rs:134-145: the loop over the pieces
rotate_eligible_cubies(transforms, rs, step) ==
  LET face_normal == normal(rs.current.face)
      is_center_slice == is_center(rs.current.face)
  IN  [c \in Cubies |->
         IF should_rotate_cubie(Translation(transforms[c]), face_normal,
                                is_center_slice)
           THEN LET turned == rotate_around(transforms[c], face_normal,
                                            face_normal, step)
                IN  IF rs.current_remaining = step
                      THEN snap_cubie_to_grid(turned)
                      ELSE turned
           ELSE transforms[c]]

\* variant: the test is `<= 0.0' in place of `== 0.0'
rotation_completed_at_most_zero(rs) == rs.current_remaining <= 0

\* rotation.rs:150: the test that the current rotation has completed
rotation_completed(rs) == rs.current_remaining = 0

(***************************************************************************)
(* main.rs and ui.rs: play mode                                            *)
(***************************************************************************)
PlayModes == {"None", "Shuffle", "Solve"}

handle_shuffle_press(mode) ==
  CASE mode = "Shuffle" -> "None"
    [] mode = "None" -> "Shuffle"
    [] OTHER -> mode

(***************************************************************************)
(* The state.  The systems of the Update schedule (main.rs:40-51) are      *)
(* registered as a tuple with no ordering between them: in every frame     *)
(* each runs once, one at a time, in an order the scheduler chooses.  The  *)
(* orders explored are the order of registration, its reverse, and the     *)
(* order requests - applier - detector - indicator; a frame may take any   *)
(* of them.  handle_mouse_drag only moves the camera and is left out.      *)
(***************************************************************************)
Systems == {"scene_button_system", "cube_control_button_system",
            "apply_rotations", "check_cube_solved",
            "update_cube_solved_indicator", "handle_play_mode"}

Registered == <<"scene_button_system", "cube_control_button_system",
                "apply_rotations", "check_cube_solved",
                "update_cube_solved_indicator", "handle_play_mode">>

Reverse(seq) == [i \in 1 .. Len(seq) |-> seq[Len(seq) + 1 - i]]

Schedules ==
  {Registered,
   Reverse(Registered),
   <<"scene_button_system", "cube_control_button_system", "handle_play_mode",
     "apply_rotations", "check_cube_solved", "update_cube_solved_indicator">>}

\* The moves explored: the first move of a run is any of the 16, the later
\* ones are quarter turns of the horizontal centre slice, which crosses four
\* of the flat faces and shares pieces with every layer but Top and Bottom.
LaterRotations == {Rotation("HorizontalCentre", "Backward")}

VARIABLES
  rotations,          \* Rotations resource
  rotation_timer,     \* RotationTimer resource
  cubie_transforms,   \* Transform of every piece
  global_transforms,  \* the transforms as last propagated to the stickers
  is_cube_solved,     \* IsCubeSolved resource
  indicator,          \* text of the CubeSolvedIndicator
  play_mode,          \* PlayMode resource
  schedule,           \* the order the systems run in, this frame
  ran,                \* systems run so far in this frame
  enqueued,           \* history: every move enqueued, in order
  loaded,             \* history: every move loaded as current, in order
  frame,              \* history of the current frame (see FrameStart)
  call                \* a function called on its own: its name, its
                      \* arguments and what it has returned so far

app_vars == <<rotations, rotation_timer, cubie_transforms, global_transforms,
              is_cube_solved, indicator, play_mode, schedule, ran, enqueued,
              loaded, frame>>

vars == <<app_vars, call>>

\* no function is being called on its own
NoCall == [function |-> "None", arguments |-> <<>>, returned |-> <<>>]

\* What is recorded about a frame: current_remaining when the frame began,
\* the delta apply_rotations read, current_remaining right after
\* progress_current_rotation, whether a rotation completed, whether the next
\* one was loaded, and whether check_cube_solved evaluated the cube.
FrameStart(remaining) ==
  [start_remaining |-> remaining, delta |-> 0, progressed |-> remaining,
   completed |-> FALSE, loaded |-> FALSE, evaluated |-> FALSE]

\* main.rs: setup
Setup ==
  /\ rotations = Rotations_new(NoRotation, <<>>)
  /\ rotation_timer = RotationTimer_new
  /\ cubie_transforms = spawn_cubies
  /\ global_transforms = spawn_cubies
  /\ is_cube_solved = TRUE
  /\ indicator = "Solved"
  /\ play_mode = "None"
  /\ schedule \in Schedules
  /\ ran = {}
  /\ enqueued = <<>>
  /\ loaded = <<>>
  /\ frame = FrameStart(0)

Init == Setup /\ call = NoCall

\* the moves a button press or a random draw may enqueue next
Explored == IF enqueued = <<>> THEN AllRotations ELSE LaterRotations

\* the same face turned the other way
Inverse(rotation) ==
  Rotation(rotation.face,
           IF rotation.direction = "Forward" THEN "Backward" ELSE "Forward")

\* the moves enqueued next when every move is followed by its inverse
ExploredInverse ==
  IF enqueued = <<>> THEN AllRotations
  ELSE {Inverse(enqueued[Len(enqueued)])}

\* `system' is the next one of the frame's schedule
Run(system) ==
  /\ Cardinality(ran) < Len(schedule)
  /\ schedule[Cardinality(ran) + 1] = system
  /\ ran' = ran \cup {system}
  /\ UNCHANGED schedule

\* ui.rs: scene_button_system.  Of the toolbar only the Shuffle button
\* matters here (Reset Camera moves the camera; the Solve button is not
\* displayed).
SceneButtonSystem ==
  /\ Run("scene_button_system")
  /\ \E pressed \in BOOLEAN :
       play_mode' = IF pressed THEN handle_shuffle_press(play_mode)
                    ELSE play_mode
  /\ UNCHANGED <<rotations, rotation_timer, cubie_transforms,
                 global_transforms, is_cube_solved, indicator, enqueued,
                 loaded, frame, call>>

\* ui.rs: cube_control_button_system: a pressed control button enqueues its
\* rotation; `moves' are the buttons that may be pressed
CubeControlButtons(moves) ==
  /\ Run("cube_control_button_system")
  /\ \/ UNCHANGED <<rotations, enqueued>>
     \/ /\ Len(enqueued) < MaxMoves
        /\ \E rotation \in moves :
             /\ rotations' = enqueue(rotations, rotation)
             /\ enqueued' = Append(enqueued, rotation)
  /\ UNCHANGED <<rotation_timer, cubie_transforms, global_transforms,
                 is_cube_solved, indicator, play_mode, loaded, frame, call>>

CubeControlButtonSystem == CubeControlButtons(Explored)

CubeControlButtonSystemInverse == CubeControlButtons(ExploredInverse)

\* rotation.rs: apply_rotations; `deltas' are the values time.delta() may have
ApplyRotationsIn(deltas) ==
  /\ Run("apply_rotations")
  /\ \E delta \in deltas :
       LET in_progress == rotations.current # NoRotation
           step == IF in_progress THEN rotation_step(rotations, delta) ELSE 0
           rotated == IF in_progress
                        THEN rotate_eligible_cubies(cubie_transforms,
                                                    rotations, step)
                        ELSE cubie_transforms
           progressed == IF in_progress
                           THEN progress_current_rotation(rotations, step)
                           ELSE rotations
           completed == rotation_completed(progressed)
           timer == IF completed THEN tick(rotation_timer, delta)
                    ELSE rotation_timer
           load == /\ completed
                   /\ just_finished(timer)
                   /\ ~is_queue_empty(progressed)
       IN  /\ cubie_transforms' = rotated
           /\ rotation_timer' = timer
           /\ rotations' = IF load THEN load_next_rotation(progressed)
                           ELSE progressed
           /\ loaded' = IF load THEN Append(loaded, Head(progressed.queue))
                        ELSE loaded
           /\ frame' = [frame EXCEPT
                          !.delta = delta,
                          !.progressed = progressed.current_remaining,
                          !.completed = rotations.current_remaining # 0
                                          /\ progressed.current_remaining = 0,
                          !.loaded = load]
  /\ UNCHANGED <<global_transforms, is_cube_solved, indicator, play_mode,
                 enqueued, call>>

\* apply_rotations under the application's clock
ApplyRotations == ApplyRotationsIn(0 .. MaxDt)

\* the delta that covers a quarter turn: 1 / ROTATION_SPEED seconds
QuarterTurnDt ==
  (ONE_ROTATION_RADIANS * 2 * TimerDuration)
    \div (ONE_ROTATION_RADIANS * ROTATION_SPEED)

\* apply_rotations under a clock that is advanced by hand, by up to the time
\* of a whole quarter turn in one tick
ApplyRotationsManualClock == ApplyRotationsIn(0 .. QuarterTurnDt)

\* cube.rs: check_cube_solved
CheckCubeSolved ==
  /\ Run("check_cube_solved")
  /\ IF rotation_timer.finished
       THEN /\ is_cube_solved' = cube_solved(global_transforms)
            /\ frame' = [frame EXCEPT !.evaluated = TRUE]
       ELSE UNCHANGED <<is_cube_solved, frame>>
  /\ UNCHANGED <<rotations, rotation_timer, cubie_transforms,
                 global_transforms, indicator, play_mode, enqueued, loaded,
                 call>>

\* ui.rs: update_cube_solved_indicator
UpdateCubeSolvedIndicator ==
  /\ Run("update_cube_solved_indicator")
  /\ indicator' = IF is_cube_solved THEN "Solved" ELSE "Not solved"
  /\ UNCHANGED <<rotations, rotation_timer, cubie_transforms,
                 global_transforms, is_cube_solved, play_mode, enqueued,
                 loaded, frame, call>>

\* main.rs: handle_play_mode; `moves' are the random moves that may be drawn
PlayModeHandled(moves) ==
  /\ Run("handle_play_mode")
  /\ IF /\ play_mode = "Shuffle"
        /\ is_queue_empty(rotations)
        /\ rotations.current_remaining = 0
        /\ Len(enqueued) < MaxMoves
       THEN \E rotation \in RandomRotations \cap moves :
              /\ rotations' = enqueue(rotations, rotation)
              /\ enqueued' = Append(enqueued, rotation)
       ELSE UNCHANGED <<rotations, enqueued>>
  /\ UNCHANGED <<rotation_timer, cubie_transforms, global_transforms,
                 is_cube_solved, indicator, play_mode, loaded, frame, call>>

HandlePlayMode == PlayModeHandled(Explored)

HandlePlayModeInverse == PlayModeHandled(ExploredInverse)

\* The end of the frame: the engine's transform propagation (PostUpdate)
\* copies every piece's Transform to the GlobalTransform of its stickers,
\* and the next frame begins.
EndFrame ==
  /\ ran = Systems
  /\ ran' = {}
  /\ schedule' \in Schedules
  /\ global_transforms' = cubie_transforms
  /\ frame' = FrameStart(rotations.current_remaining)
  /\ UNCHANGED <<rotations, rotation_timer, cubie_transforms, is_cube_solved,
                 indicator, play_mode, enqueued, loaded, call>>

Next ==
  \/ SceneButtonSystem
  \/ CubeControlButtonSystem
  \/ ApplyRotations
  \/ CheckCubeSolved
  \/ UpdateCubeSolvedIndicator
  \/ HandlePlayMode
  \/ EndFrame

Spec == Init /\ [][Next]_vars

\* The program when every move enqueued is followed by its inverse.
NextInverse ==
  \/ SceneButtonSystem
  \/ CubeControlButtonSystemInverse
  \/ ApplyRotations
  \/ CheckCubeSolved
  \/ UpdateCubeSolvedIndicator
  \/ HandlePlayModeInverse
  \/ EndFrame

SpecInverse == Init /\ [][NextInverse]_vars

\* cube_control_button_system in a frame in which no control button is
\* pressed
NoControlButtonPressed ==
  /\ Run("cube_control_button_system")
  /\ UNCHANGED <<rotations, rotation_timer, cubie_transforms,
                 global_transforms, is_cube_solved, indicator, play_mode,
                 enqueued, loaded, frame, call>>

\* The program when nobody presses a control button: handle_play_mode is the
\* only caller of enqueue.
NextShuffle ==
  \/ SceneButtonSystem
  \/ NoControlButtonPressed
  \/ ApplyRotations
  \/ CheckCubeSolved
  \/ UpdateCubeSolvedIndicator
  \/ HandlePlayMode
  \/ EndFrame

SpecShuffle == Init /\ [][NextShuffle]_vars

\* The scenario of a test that turns the front layer: the only move is
\* Front/Forward and the clock is advanced by hand.
FrontForward == {Rotation("Front", "Forward")}

PressFrontForward == CubeControlButtons(FrontForward)

HandlePlayModeFrontForward == PlayModeHandled(FrontForward)

NextManualClock ==
  \/ SceneButtonSystem
  \/ PressFrontForward
  \/ ApplyRotationsManualClock
  \/ CheckCubeSolved
  \/ UpdateCubeSolvedIndicator
  \/ HandlePlayModeFrontForward
  \/ EndFrame

SpecManualClock == Init /\ [][NextManualClock]_vars

(***************************************************************************)
(* Functions called on their own.  `call' holds the name of the function,  *)
(* the arguments it is given and, in order, what it has returned; a        *)
(* function that works on a `&mut' argument is called again on what it     *)
(* left there.  The application itself stays as setup left it.             *)
(***************************************************************************)
\* how many times in a row a function is called on the same `&mut' argument
MaxCalls == 2

Call(function, arguments) ==
  [function |-> function, arguments |-> arguments, returned |-> <<>>]

\* the transforms on the grid: a cell of the lattice, an orientation made of
\* quarter turns
SnappedTransforms ==
  {[cell |-> <<c[1], c[2], c[3]>>, rotation |-> r, turn |-> 0, axis |-> ZERO] :
     c \in Coordinates \X Coordinates \X Coordinates, r \in Orientations}

SnapCalls == {Call("snap_cubie_to_grid", <<t>>) : t \in SnappedTransforms}

\* the value a `&mut' argument holds now
Current == IF call.returned = <<>> THEN call.arguments[1]
           ELSE call.returned[Len(call.returned)]

\* rotation.rs: snap_cubie_to_grid(&mut cubie)
SnapCubieToGrid ==
  /\ call.function = "snap_cubie_to_grid"
  /\ Len(call.returned) < MaxCalls
  /\ call' = [call EXCEPT !.returned = Append(@, snap_cubie_to_grid(Current))]
  /\ UNCHANGED app_vars

\* the coordinates from_coordinates is called with: the lattice, and values
\* at and near the ends of i8
I8Samples == Coordinates \cup {I8_MIN, I8_MIN + 1, 3, I8_MAX}

FromCoordinatesCalls ==
  {Call("from_coordinates", <<x, y, z>>) : x \in I8Samples, y \in I8Samples,
                                           z \in I8Samples}

\* cubie.rs: Kind::from_coordinates(x, y, z); where i8 arithmetic overflows
\* a build with overflow checks panics and one without goes on with the
\* wrapped value
FromCoordinates ==
  /\ call.function = "from_coordinates"
  /\ call.returned = <<>>
  /\ \E overflow_checks \in BOOLEAN :
       LET x == call.arguments[1]
           y == call.arguments[2]
           z == call.arguments[3]
       IN  call' = [call EXCEPT !.returned =
                      <<IF overflow_checks /\ overflows(x, y, z) THEN "panic"
                        ELSE from_coordinates(x, y, z)>>]
  /\ UNCHANGED app_vars

\* the values of Rotations its public functions build: new with or without
\* a move in progress and with an empty or a one-move queue, then
\* progress_current_rotation by part or all of the quarter turn
RotationsValues ==
  {progress_current_rotation(Rotations_new(in_progress, queue),
                             progress * Signum(
                               Rotations_new(in_progress, queue)
                                 .current_remaining)) :
     in_progress \in AllRotations \cup {NoRotation},
     queue \in {<<>>} \cup {<<rotation>> : rotation \in LaterRotations},
     progress \in 0 .. ONE_ROTATION_RADIANS}

LoadNextRotationCalls ==
  {Call("load_next_rotation", <<rs>>) : rs \in RotationsValues}

\* rotation.rs: Rotations::load_next_rotation(&mut self)
LoadNextRotation ==
  /\ call.function = "load_next_rotation"
  /\ Len(call.returned) < MaxCalls
  /\ call' = [call EXCEPT !.returned = Append(@, load_next_rotation(Current))]
  /\ UNCHANGED app_vars

\* rotation.rs:203  Vec3::new(1.49, 1.0, 1.0), in units of 1/100000
test_cubie_face == <<149000, 100000, 100000>>

\* the sticker positions of the spawned cube that lie on the outer face
\* `face': the piece is in the face's layer and the sticker looks outwards
OuterStickers(face) ==
  {StickerTranslation(spawn_cubies[c], cubie_face) :
     c \in {d \in Cubies : Dot(normal(face), d) = 1},
     cubie_face \in {f \in CubieFaces :
                       RotatedNormal(IDENTITY, f) = normal(face)}}

\* the dot products taken: the one of test_dot_product, and the ones of a
\* flat face's normal with the stickers on that face
DotCalls ==
  {Call("dot", <<X, test_cubie_face>>)}
    \cup {Call("dot", <<normal(flat_faces[i]), position>>) :
            i \in 1 .. Len(flat_faces),
            position \in UNION {OuterStickers(flat_faces[j]) :
                                  j \in 1 .. Len(flat_faces)}}

\* rotation.rs:204  Vec3::X.dot(cubie_face); cube.rs:126  normal.dot(..)
DotProduct ==
  /\ call.function = "dot"
  /\ call.returned = <<>>
  /\ call' = [call EXCEPT !.returned =
                 <<Dot(call.arguments[1], call.arguments[2])>>]
  /\ UNCHANGED app_vars

\* cube.rs:75  rng.random_range(0..8); rotation.rs:36  rng.random_range(0..2)
FaceDraws == 0 .. 7
DirectionDraws == 0 .. 1

RandomCalls ==
  {Call("random", <<d, f>>) : d \in DirectionDraws, f \in FaceDraws}

\* rotation.rs: Rotation::random(), the arguments being what the generator
\* yields for the direction and then for the face
Random ==
  /\ call.function = "random"
  /\ call.returned = <<>>
  /\ call' = [call EXCEPT !.returned =
                 <<Rotation(sample_face(call.arguments[2]),
                            sample_direction(call.arguments[1]))>>]
  /\ UNCHANGED app_vars

Calls ==
  SnapCalls \cup FromCoordinatesCalls \cup LoadNextRotationCalls
    \cup DotCalls \cup RandomCalls

InitPure == Setup /\ schedule = Registered /\ call \in Calls

NextPure ==
  \/ SnapCubieToGrid
  \/ FromCoordinates
  \/ LoadNextRotation
  \/ DotProduct
  \/ Random

SpecPure == InitPure /\ [][NextPure]_vars

(***************************************************************************)
(* Properties                                                              *)
(***************************************************************************)
\* the step of apply_rotations and what it read
ApplierRan == "apply_rotations" \in ran
ApplierStep == "apply_rotations" \in ran' /\ "apply_rotations" \notin ran
FrameOver == ran = Systems

\* C1: moves become current in exactly the order they were enqueued, each
\* once: the moves loaded so far followed by the pending list are the moves
\* enqueued so far, whoever enqueued them, and the current move is the last
\* one loaded.
C1_FifoExactlyOnce ==
  /\ enqueued = loaded \o rotations.queue
  /\ rotations.current = IF loaded = <<>> THEN NoRotation
                         ELSE loaded[Len(loaded)]

\* two different moves have become current, in the order they were enqueued
C1_Witness ==
  /\ Len(loaded) = 2
  /\ loaded[1] # loaded[2]
  /\ loaded = enqueued

\* C2: a move in progress is never cancelled or replaced: the current move
\* changes only by loading the head of the pending list in a step whose
\* remaining angle, after the advance, is exactly 0; and the pending list
\* changes only by an append at the tail or the removal of its head.
C2_NeverCancelled ==
  [][/\ rotations'.current # rotations.current
          => /\ frame'.loaded
             /\ rotations.queue # <<>>
             /\ rotations'.current = Head(rotations.queue)
     /\ frame'.loaded /\ ~frame.loaded
          => /\ frame'.progressed = 0
             /\ rotations.queue # <<>>
             /\ rotations'.queue = Tail(rotations.queue)
     /\ rotations'.queue # rotations.queue
          => \/ \E r \in AllRotations :
                  rotations'.queue = Append(rotations.queue, r)
             \/ /\ rotations.queue # <<>>
                /\ rotations'.queue = Tail(rotations.queue)]_vars

\* a second move has just been loaded, after the first one ran to 0
C2_Witness ==
  /\ frame.loaded
  /\ Len(loaded) = 2
  /\ frame.progressed = 0

\* C3: the remaining angle is 0 or has the sign of the current move's
\* direction, its magnitude is at most a quarter turn, and it is exactly a
\* signed quarter turn when a move has just become current.
C3_RemainingSignAndRange ==
  LET remaining == rotations.current_remaining
  IN  /\ remaining # 0
          => /\ rotations.current # NoRotation
             /\ Signum(remaining) = signum(rotations.current.direction)
      /\ Abs(remaining) <= ONE_ROTATION_RADIANS
      /\ frame.loaded
          => /\ rotations.current # NoRotation
             /\ remaining = ONE_ROTATION_RADIANS
                              * signum(rotations.current.direction)

\* a Backward move is half way, with a negative remaining angle
C3_Witness ==
  /\ rotations.current # NoRotation
  /\ rotations.current.direction = "Backward"
  /\ rotations.current_remaining = -2
  /\ ApplierRan
  /\ frame.start_remaining = -ONE_ROTATION_RADIANS

\* the angle 90 degrees * speed * dt of a frame of delta time units
FullStep(delta) ==
  (ONE_ROTATION_RADIANS * delta * ROTATION_SPEED) \div (2 * TimerDuration)

AtRest(transforms) ==
  /\ \A c \in Cubies :
        /\ transforms[c].turn = 0
        /\ Translation(transforms[c]) = Scale(1000, transforms[c].cell)
        /\ transforms[c].cell \in Cubies
        /\ transforms[c].rotation \in Orientations
  /\ Cardinality({transforms[c].cell : c \in Cubies}) = Cardinality(Cubies)

C6_NoEvaluationInFlight ==
  frame.start_remaining # 0 /\ ApplierRan /\ frame.progressed # 0
    => ~frame.evaluated

\* C7, as stated: in the frame in which a move completes the detector
\* evaluates the cube, and the sticker positions it reads are those of the
\* snapped pieces.
C7_DetectorReadsPostSnap ==
  FrameOver /\ frame.completed
    => frame.evaluated /\ global_transforms = cubie_transforms

\* C8, as stated: in every frame the requests (control buttons and shuffle
\* driver) run before the applier, the applier before the detector, and the
\* detector before the indicator.
C8_FixedOrder ==
  /\ "apply_rotations" \in ran
       => {"cube_control_button_system", "handle_play_mode"} \subseteq ran
  /\ "check_cube_solved" \in ran => "apply_rotations" \in ran
  /\ "update_cube_solved_indicator" \in ran => "check_cube_solved" \in ran

\* C9: as long as no move has been enqueued the cube is the spawned one, the
\* detector finds it solved, and the solved flag is true.
C9_FreshCubeSolved ==
  enqueued = <<>>
    => /\ cubie_transforms = spawn_cubies
       /\ global_transforms = spawn_cubies
       /\ cube_solved(global_transforms)
       /\ is_cube_solved

\* the detector has evaluated the spawned cube and the flag is true
C9_Witness ==
  /\ enqueued = <<>>
  /\ frame.evaluated
  /\ is_cube_solved
  /\ rotation_timer.finished

\* C10, as stated: at the end of the frame in which the first move, a
\* quarter turn of a flat face of the solved cube, completes, the solved
\* flag is false.
C10_UnsolvedWhenFirstTurnCompletes ==
  /\ FrameOver
  /\ frame.completed
  /\ Len(loaded) = 1
  /\ ~is_center(loaded[1].face)
  => is_cube_solved = FALSE

\* the cube after one completed quarter turn `rotation' of the cube at rest
AfterRotation(transforms, rotation) ==
  rotate_eligible_cubies(transforms, Rotations_new(rotation, <<>>),
                         ONE_ROTATION_RADIANS * signum(rotation.direction))

C12_SnapIdempotent ==
  (call.function = "snap_cubie_to_grid"
     /\ call.arguments[1] \in SnappedTransforms)
    => \A i \in 1 .. Len(call.returned) :
         call.returned[i] = call.arguments[1]

\* snapped twice, an orientation whose second Euler angle is a quarter turn
C12_Witness ==
  /\ call.function = "snap_cubie_to_grid"
  /\ Len(call.returned) = 2
  /\ call.arguments[1].rotation[3][1] = -1
  /\ call.arguments[1].rotation[1] = Y
  /\ call.arguments[1].cell = <<-1, 0, 1>>
  /\ call.returned[2] = call.returned[1]

\* the step of handle_play_mode
DriverStep == "handle_play_mode" \in ran' /\ "handle_play_mode" \notin ran

\* C13: with handle_play_mode the only caller of enqueue, a run of it in
\* Shuffle mode that finds the pending list empty and current_remaining = 0
\* enqueues exactly one move, no other run of it and no other system
\* enqueues anything, and the pending list never holds more than one move.
\* (The model stops enqueueing after MaxMoves moves.)
C13_OneMovePerIdleTick ==
  /\ [](Len(rotations.queue) <= 1)
  /\ [][IF /\ DriverStep
           /\ play_mode = "Shuffle"
           /\ rotations.queue = <<>>
           /\ rotations.current_remaining = 0
          THEN Len(enqueued) < MaxMoves
                 => /\ Len(enqueued') = Len(enqueued) + 1
                    /\ rotations'.queue = <<enqueued'[Len(enqueued')]>>
          ELSE /\ enqueued' = enqueued
               /\ DriverStep => rotations' = rotations]_vars

\* the second random move is enqueued once the first has completed
C13_Witness ==
  /\ play_mode = "Shuffle"
  /\ "handle_play_mode" \in ran
  /\ Len(enqueued) = 2
  /\ Len(loaded) = 1
  /\ rotations.queue = <<enqueued[2]>>
  /\ rotations.current_remaining = 0
  /\ frame.completed

\* C14: when the remaining angle of the current move has reached 0 and the
\* pending list is empty the scheduler holds no current move.
C14_NoCurrentWhenIdle ==
  (rotations.current_remaining = 0 /\ rotations.queue = <<>>)
    => rotations.current = NoRotation

\* C15: in every frame in which the scheduler is idle (remaining = 0 from
\* the start of the frame to its end) check_cube_solved evaluates the cube
\* and writes is_cube_solved.
C15_EvaluatedEveryIdleTick ==
  (FrameOver /\ frame.start_remaining = 0 /\ rotations.current_remaining = 0)
    => frame.evaluated

\* the cells of the 3x3x3 lattice
Lattice == Coordinates \X Coordinates \X Coordinates

\* how many of the three coordinates are not 0
NonZero(c) == Cardinality({i \in 1 .. 3 : c[i] # 0})

\* the lattice cells from_coordinates classifies as kind
OfKind(kind) == {c \in Lattice : from_coordinates(c[1], c[2], c[3]) = kind}

\* C16: on {-1, 0, 1}^3 from_coordinates returns nothing for the origin and
\* otherwise exactly one of Centre, Corner, Edge: Centre iff exactly one
\* coordinate is not 0 (|x| + |y| + |z| = 1), Corner iff the three absolute
\* values are equal, Edge otherwise; that makes 6 centres, 8 corners and 12
\* edges, 26 pieces in all.
C16_Classification ==
  /\ (call.function = "from_coordinates" /\ call.returned # <<>>
        /\ call.arguments \in Lattice)
       => LET c == call.arguments
              kind == call.returned[1]
          IN  /\ kind \in {"None", "Centre", "Corner", "Edge"}
              /\ kind = "None" <=> c = ZERO
              /\ kind = "Centre" <=> NonZero(c) = 1
              /\ kind = "Centre" <=> Abs(c[1]) + Abs(c[2]) + Abs(c[3]) = 1
              /\ kind = "Corner"
                   <=> (c # ZERO /\ Abs(c[1]) = Abs(c[2])
                          /\ Abs(c[1]) = Abs(c[3]))
              /\ kind = "Edge" <=> NonZero(c) = 2
  /\ Cardinality(OfKind("Centre")) = 6
  /\ Cardinality(OfKind("Corner")) = 8
  /\ Cardinality(OfKind("Edge")) = 12
  /\ Cardinality(DOMAIN cubie_transforms) = 26

\* an edge cell has been classified
C16_Witness ==
  /\ call.function = "from_coordinates"
  /\ call.arguments = <<1, -1, 0>>
  /\ call.returned = <<"Edge">>

\* C17: from_coordinates is total on i8 x i8 x i8: whatever the three
\* coordinates, -128 and sums of absolute values above 127 included, it
\* returns a classification, and no operation overflows or panics.
C17_TotalOnI8 ==
  (call.function = "from_coordinates" /\ call.returned # <<>>)
    => /\ call.returned[1] \in {"None", "Centre", "Corner", "Edge"}
       /\ ~overflows(call.arguments[1], call.arguments[2], call.arguments[3])

\* C18: from an idle scheduler at rest, after enqueue(Front, Forward) one
\* tick of apply_rotations whose delta covers a whole quarter turn leaves
\* current_remaining = 0 and the pending list empty, with the pieces of the
\* front layer snapped at the cells the turn takes them to.
C18_CompletedInOneTick ==
  [][(/\ ApplierStep
      /\ rotations.current = NoRotation
      /\ rotations.current_remaining = 0
      /\ rotations.queue = <<Rotation("Front", "Forward")>>
      /\ cubie_transforms = spawn_cubies
      /\ frame'.delta >= QuarterTurnDt)
       => /\ rotations'.current_remaining = 0
          /\ rotations'.queue = <<>>
          /\ cubie_transforms'
               = AfterRotation(spawn_cubies, Rotation("Front", "Forward"))]_vars

C21_DotIsOne ==
  (/\ call.function = "dot"
   /\ call.returned # <<>>
   /\ \/ call.arguments = <<X, test_cubie_face>>
      \/ \E i \in 1 .. Len(flat_faces) :
           /\ call.arguments[1] = normal(flat_faces[i])
           /\ call.arguments[2] \in OuterStickers(flat_faces[i]))
    => call.returned[1] = 100000

\* the pieces the loop of apply_rotations turns for a move of `face'
SelectedCubies(transforms, face) ==
  {c \in Cubies :
     should_rotate_cubie(Translation(transforms[c]), normal(face),
                         is_center(face))}

Rotated90(n, s, v) ==
  LET k == s * (n[1] + n[2] + n[3])
  IN  IF n[1] # 0 THEN <<v[1], -k * v[3], k * v[2]>>
      ELSE IF n[2] # 0 THEN <<k * v[3], v[2], -k * v[1]>>
      ELSE <<-k * v[2], k * v[1], v[3]>>

StickerPositions ==
  [sticker \in Cubies \X CubieFaces |->
     StickerTranslation(global_transforms[sticker[1]], sticker[2])]

\* the colours of the stickers found on `face': those whose position dotted
\* with the face normal is 1.0 + 0.49
MatchedColoursIn(positions, face) ==
  {start_color(sticker[2]) :
     sticker \in {st \in DOMAIN positions :
                    Dot(normal(face), positions[st]) = 149000}}

MatchedColours(face) == MatchedColoursIn(StickerPositions, face)

\* C24: in a frame in which check_cube_solved evaluates (looked at when all
\* the systems of the frame have run), the flag it wrote is true iff on
\* each of the 6 flat faces all the stickers whose position dotted with the
\* normal equals 1.0 + offset have one colour (a face with no such sticker
\* passes, a single face that fails makes the cube unsolved).
C24_SolvedIffEveryFaceUniform ==
  (FrameOver /\ frame.evaluated)
    => LET positions == StickerPositions
       IN  is_cube_solved
             <=> \A i \in 1 .. Len(flat_faces) :
                   Cardinality(MatchedColoursIn(positions, flat_faces[i])) <= 1

\* the detector has read a cube at rest with a layer turned and found it
\* unsolved although some of its faces are uniform
C24_Witness ==
  /\ FrameOver
  /\ frame.evaluated
  /\ AtRest(global_transforms)
  /\ ~is_cube_solved
  /\ \E i \in 1 .. Len(flat_faces) :
       Cardinality(MatchedColours(flat_faces[i])) = 1
  /\ \E i \in 1 .. Len(flat_faces) :
       Cardinality(MatchedColours(flat_faces[i])) > 1

\* C25: Rotation::random can yield each of the 16 (Face, Direction) pairs:
\* the 8 face draws 0..7 go to 8 different faces and the 2 direction draws
\* to 2 different directions, so every pair comes from exactly one pair of
\* draws and none is out of reach or counted twice.
C25_EveryMoveFromOneDraw ==
  /\ (call.function = "random" /\ call.returned # <<>>)
       => /\ call.returned[1] \in AllRotations
          /\ \A d \in DirectionDraws, f \in FaceDraws :
                Rotation(sample_face(f), sample_direction(d))
                    = call.returned[1]
                  => <<d, f>> = call.arguments
  /\ {sample_face(f) : f \in FaceDraws} = Faces
  /\ {sample_direction(d) : d \in DirectionDraws} = Directions
  /\ RandomRotations = AllRotations
  /\ Cardinality(RandomRotations) = 16

\* the draws 0 and 0 have given the move of the two catch-all arms
C25_Witness ==
  /\ call.function = "random"
  /\ call.arguments = <<0, 0>>
  /\ call.returned = <<Rotation("VerticalCentre", "Backward")>>

\* C26: in a frame in which no move is in flight (current_remaining = 0 when
\* a system runs; apply_rotations loads a move only as its last act), the
\* frames after a move has completed and is still held as current included,
\* no piece's position or orientation changes.
C26_IdleFramesMoveNothing ==
  [][rotations.current_remaining = 0
       => cubie_transforms' = cubie_transforms]_vars

\* apply_rotations has run in a frame that began at rest with the completed
\* move still current, and the turned layer is where the move left it
C26_Witness ==
  /\ ApplierRan
  /\ frame.start_remaining = 0
  /\ ~frame.loaded
  /\ Len(loaded) = 1
  /\ rotations.current = loaded[1]
  /\ rotations.current_remaining = 0
  /\ cubie_transforms = AfterRotation(spawn_cubies, loaded[1])
  /\ cubie_transforms # spawn_cubies

\* the k-th move enqueued has been loaded and has completed
Completed(k) ==
  \/ Len(loaded) > k
  \/ Len(loaded) = k /\ rotations.current_remaining = 0

\* a bound on the time, in frames of the smallest delta above 0, until the
\* k-th move enqueued has completed: what remains of the turn in progress,
\* and a whole cooldown and a whole turn for every move pending up to the
\* k-th, less the part of the cooldown that has elapsed
WorkAhead(k) ==
  IF Len(loaded) > k THEN 0
  ELSE LET pending == k - Len(loaded)
       IN  Abs(rotations.current_remaining)
             + pending * (TimerDuration + ONE_ROTATION_RADIANS)
             - (IF rotations.current_remaining = 0 /\ pending > 0
                  THEN rotation_timer.elapsed ELSE 0)

\* C27: while frames keep arriving with a delta above 0, every move
\* enqueued is eventually loaded as the current move and eventually
\* completes, current_remaining reaching exactly 0, and no pending move
\* waits for ever, whenever it was enqueued.  Stated with the bound
\* WorkAhead: for every move enqueued the bound is 0 exactly when the move
\* has completed, no step raises it, and every run of apply_rotations with
\* a delta above 0 lowers it as long as the move has not completed.
C27_EveryMoveCompletes ==
  [][\A k \in 1 .. Len(enqueued) :
       /\ WorkAhead(k) >= 0
       /\ WorkAhead(k) = 0 <=> Completed(k)
       /\ WorkAhead(k)' <= WorkAhead(k)
       /\ (ApplierStep /\ frame'.delta > 0 /\ ~Completed(k))
            => WorkAhead(k)' < WorkAhead(k)]_vars

\* the first move has completed, and the second has been enqueued on an
\* empty pending list right after the run of apply_rotations in which the
\* timer wrapped: a whole cooldown lies ahead of it
C27_Witness ==
  /\ ApplierRan
  /\ just_finished(rotation_timer)
  /\ ~frame.loaded
  /\ Len(enqueued) = 2
  /\ Completed(1)
  /\ rotations.queue = <<enqueued[2]>>
  /\ WorkAhead(2) > ONE_ROTATION_RADIANS
====
